---- MODULE Spec2Model ----
(***************************************************************************)
(* Verification model of the publisher-Themes scripts.                     *)
(*                                                                         *)
(*   SpecSend   the throttled, retrying session of                         *)
(*              .scripts/comixology-to-ubooquity.py (make_requests_session)*)
(*   SpecFetch  the batch loop of .scripts/fetch_publisher_images.py       *)
(*              (main and the functions it calls)                          *)
(*   SpecResolve  one publisher of that loop against every kind of answer  *)
(*   SpecCrawl  scrape_publisher_list over a chain of listing pages        *)
(*   SpecDelay, SpecRank, SpecSquare, SpecStream                           *)
(*              get_random_delay, fetch_html_candidates, make_square and   *)
(*              download_image applied to drawn inputs                     *)
(***************************************************************************)
EXTENDS Integers, Naturals, Sequences, FiniteSets, TLC

VARIABLES
    \* ---- comixology-to-ubooquity.py: make_requests_session ----
    arguments,            \* argparse.Namespace: request_attempts, delay_range
    now,                  \* time.time()
    last_request_times,   \* session._last_request_times: netloc -> time
    spc,                  \* position inside request(): idle / pace / inflight
    netloc,               \* host of the request in progress
    attempt,              \* loop variable of `for attempt in range(1, attempts)`
    attempts,             \* max(1, arguments.request_attempts)
    dispatched,           \* number of original_request calls of this send
    failures,             \* number of ConnectionErrors seen by this send
    outcome,              \* how the latest send ended
    lastDispatch,         \* the latest dispatch: host, time, previous time, raw delay
    \* ---- get_random_delay applied to drawn inputs ----
    sample,               \* lower, upper, deviate and the delay returned
    \* ---- fetch_publisher_images.py: the files ----
    source_md,            \* the publishers listed in the source markdown
    cache_json,           \* _downloads/cache.json
    report_csv,           \* _downloads/report.csv: exists, rows
    folder_jpg,           \* publishers whose folder.jpg exists
    folder_info,          \* publishers whose folder-info.html has a description block
    \* ---- fetch_publisher_images.py: main ----
    mpc,                  \* idle / loop / details / acquire / finish / done / crashed
    args,                 \* the parsed command line
    cache,                \* the cache dict in memory
    publishers,           \* the list being processed
    idx,                  \* position in publishers (from 1)
    bdbase_map,           \* the prefetched directory-site index
    image_exists,         \* os.path.exists(target_image) at the top of the iteration
    info,                 \* the publisher's resolution record
    description,          \* info.get("bdbase_description") when requested
    website,              \* info.get("bdbase_website") when requested
    image,                \* the image found so far, or None
    source_url,           \* where it was found
    src_pos,              \* position in the chain of image sources
    crash_site,           \* the call whose exception ended the process
    \* ---- history kept for the properties ----
    runs,                 \* processes started so far
    calls,                \* network requests made for the current publisher
    run_calls,            \* kinds of network requests made by the current process
    run_rows,             \* data rows written by the current process
    hit,                  \* what cache.get returned for the current publisher
    scan,                 \* the official page fetched, and its URLs that download
    prev_run,             \* args, list, rows and end of the previous process
    \* ---- comixology-to-ubooquity.py: scrape_publisher_list ----
    listing_site,         \* the listing the server holds: pages, items, host
    cpc,                  \* idle / fetch / done / crashed
    page_url,             \* the page to fetch next
    listings,             \* the list returned so far (publishers / series)
    received,             \* the URLs whose page was received, in order
    publisher_index,      \* listings main has gone through (0 before its loop)
    \* ---- fetch_html_candidates, make_square and download_image on drawn inputs ----
    ranking,              \* the start tags of a page and the candidates ranked from them
    square,               \* the image size, the crop box and the size returned
    stream                \* the response streamed and what download_image returned

sendVars == <<arguments, now, last_request_times, spc, netloc, attempt, attempts,
              dispatched, failures, outcome, lastDispatch>>

fileVars == <<source_md, cache_json, report_csv, folder_jpg, folder_info>>
mainVars == <<mpc, args, cache, publishers, idx, bdbase_map, image_exists, info,
              description, website, image, source_url, src_pos, crash_site>>
historyVars == <<runs, calls, run_calls, run_rows, hit, scan, prev_run>>
fetchVars == <<fileVars, mainVars, historyVars>>

crawlVars == <<listing_site, cpc, page_url, listings, received, publisher_index>>
toolVars == <<crawlVars, ranking, square, stream>>

vars == <<sendVars, sample, fetchVars, toolVars>>

None == "None"

Max(a, b) == IF a >= b THEN a ELSE b
Min(a, b) == IF a <= b THEN a ELSE b

(***************************************************************************)
(* Bounds of the transport model.                                          *)
(***************************************************************************)
MaxAttempts == 3      \* --request-attempts is drawn from 0..MaxAttempts
MaxSigma == 3         \* the normal deviate is drawn from -MaxSigma..MaxSigma
StartTime == 10       \* time.time() when the session is created
TimeSpan == 8         \* the clock is followed up to StartTime + TimeSpan
MaxJitter == 1        \* time.sleep may oversleep by at most this much
MaxLatency == 1       \* a network attempt takes at most this long

Hosts == {"h1", "h2"}
\* --delay-range bounds; multiples of 4 keep mean and sigma whole numbers
DelayValues == {0, 4}
Deviates == (0 - MaxSigma)..MaxSigma
MaxTime == StartTime + TimeSpan

(***************************************************************************)
(* get_random_delay: random.normalvariate(mean, range_/4) is mean plus z   *)
(* standard deviations, z the deviate drawn by the generator; the sample   *)
(* is clamped into [lower, upper].                                         *)
(***************************************************************************)
get_random_delay_unclamped(lower, upper, z) ==
    LET range_ == upper - lower
        mean   == (upper + lower) \div 2
    IN  mean + z * (range_ \div 4)

get_random_delay(lower, upper, z) ==
    LET range_ == upper - lower
        mean   == (upper + lower) \div 2
        delay  == mean + z * (range_ \div 4)
    IN  Max(lower, Min(upper, delay))

(***************************************************************************)
(* get_adjust_delay: the sampled delay minus the time elapsed since the    *)
(* last request to the host, never negative.  t is time.time().            *)
(***************************************************************************)
get_adjust_delay_swapped(delay, last_request_time, t) ==
    Max(0, (t - last_request_time) - delay)

get_adjust_delay(delay, last_request_time, t) ==
    Max(0, delay - (t - last_request_time))

(***************************************************************************)
(* make_requests_session                                                   *)
(***************************************************************************)
\* The status codes a server answers with; 0 stands for no answer yet: the
\* response belongs to one call of request() and is gone when the next begins.
StatusCodes == {200, 404, 503}
NoDispatch == [host |-> None, time |-> 0, previous |-> 0, raw |-> 0, slept |-> 0, status |-> 0]
NoSample == [lower |-> 0, upper |-> 0, z |-> 0, delay |-> 0, drawn |-> FALSE]

make_requests_session ==
    /\ arguments \in [request_attempts : 0..MaxAttempts,
                      delay_range : DelayValues \X DelayValues]
    /\ now = StartTime
    /\ last_request_times = [h \in Hosts |-> 0]     \* defaultdict(float)
    /\ spc = "idle"
    /\ netloc = None
    /\ attempt = 0
    /\ attempts = 0
    /\ dispatched = 0
    /\ failures = 0
    /\ outcome = None
    /\ lastDispatch = NoDispatch

\* range(1, attempts) holds the value a
InRange(a, n) == a >= 1 /\ a < n

\* session.request(method, url): the call enters the function.  An empty
\* range(1, attempts) falls through the loop and the function returns None.
Request(h) ==
    /\ spc = "idle"
    /\ netloc' = h
    /\ attempts' = Max(1, arguments.request_attempts)
    /\ attempt' = 1
    /\ dispatched' = 0
    /\ failures' = 0
    /\ IF InRange(1, attempts')
          THEN spc' = "pace" /\ outcome' = "pending"
          ELSE spc' = "idle" /\ outcome' = "returned_none"
    /\ lastDispatch' = [lastDispatch EXCEPT !.status = 0]
    /\ UNCHANGED <<arguments, now, last_request_times, sample, fetchVars, toolVars>>

\* Lines 245-254 up to the call of original_request: sample the delay, subtract
\* the elapsed time, sleep the remainder, stamp the host, dispatch.
\* a lookup that answers with the latest dispatch to any host
last_request_time_of_any(times, host) ==
    LET all == {times[h] : h \in DOMAIN times}
    IN  CHOOSE t \in all : \A u \in all : t >= u

\* line 248: self._last_request_times[netloc]
last_request_time_of(times, host) == times[host]

Pace(z, jitter) ==
    /\ spc = "pace"
    /\ LET raw   == get_random_delay(arguments.delay_range[1],
                                     arguments.delay_range[2], z)
           delay == get_adjust_delay(raw, last_request_time_of(last_request_times, netloc), now)
           t     == IF delay > 0 THEN now + delay + jitter ELSE now
       IN  /\ t <= MaxTime
           /\ now' = t
           /\ last_request_times' = [last_request_times EXCEPT ![netloc] = t]
           /\ lastDispatch' = [host |-> netloc, time |-> t,
                               previous |-> last_request_times[netloc],
                               raw |-> raw, slept |-> delay, status |-> 0]
    /\ dispatched' = dispatched + 1
    /\ spc' = "inflight"
    /\ UNCHANGED <<arguments, netloc, attempt, attempts, failures, outcome, sample, fetchVars, toolVars>>

\* A transport that stamps the host again when the response arrives.
Respond_stamping(latency, status) ==
    /\ spc = "inflight"
    /\ now + latency <= MaxTime
    /\ now' = now + latency
    /\ last_request_times' = [last_request_times EXCEPT ![netloc] = now']
    /\ spc' = "idle"
    /\ outcome' = "response"
    /\ lastDispatch' = [lastDispatch EXCEPT !.status = status]
    /\ UNCHANGED <<arguments, netloc, attempt, attempts,
                   dispatched, failures, sample, fetchVars, toolVars>>

\* A transport that sends the request once more after an error status.
Respond_retrying(latency, status) ==
    /\ spc = "inflight"
    /\ now + latency <= MaxTime
    /\ now' = now + latency
    /\ lastDispatch' = [lastDispatch EXCEPT !.status = status]
    /\ IF status >= 400 /\ dispatched < 2
          THEN spc' = "pace" /\ UNCHANGED outcome
          ELSE spc' = "idle" /\ outcome' = "response"
    /\ UNCHANGED <<arguments, last_request_times, netloc, attempt, attempts,
                   dispatched, failures, sample, fetchVars, toolVars>>

\* Line 254 and line 260: original_request returns a response and request()
\* returns it, whatever its status code.
Respond(latency, status) ==
    /\ spc = "inflight"
    /\ now + latency <= MaxTime
    /\ now' = now + latency
    /\ spc' = "idle"
    /\ outcome' = "response"
    /\ lastDispatch' = [lastDispatch EXCEPT !.status = status]
    /\ UNCHANGED <<arguments, last_request_times, netloc, attempt, attempts,
                   dispatched, failures, sample, fetchVars, toolVars>>

\* original_request raises requests.exceptions.ConnectionError: re-raise when
\* attempt >= attempts, else continue with the next value of the range; when
\* the range is exhausted the loop ends and the function returns None.
ConnectionError(latency) ==
    /\ spc = "inflight"
    /\ now + latency <= MaxTime
    /\ now' = now + latency
    /\ failures' = failures + 1
    /\ IF attempt >= attempts
          THEN /\ spc' = "idle"
               /\ outcome' = "raised_ConnectionError"
               /\ UNCHANGED attempt
          ELSE IF InRange(attempt + 1, attempts)
                  THEN /\ attempt' = attempt + 1
                       /\ spc' = "pace"
                       /\ UNCHANGED outcome
                  ELSE /\ spc' = "idle"
                       /\ outcome' = "returned_none"
                       /\ UNCHANGED attempt
    /\ UNCHANGED <<arguments, last_request_times, netloc, attempts,
                   dispatched, lastDispatch, sample, fetchVars, toolVars>>

\* original_request raises anything else (a read timeout, a redirect loop):
\* the except clause does not match and the exception leaves request().
OtherError(latency) ==
    /\ spc = "inflight"
    /\ now + latency <= MaxTime
    /\ now' = now + latency
    /\ spc' = "idle"
    /\ outcome' = "raised_other"
    /\ UNCHANGED <<arguments, last_request_times, netloc, attempt, attempts,
                   dispatched, failures, lastDispatch, sample, fetchVars, toolVars>>

\* The caller works between two requests (parsing, writing files).
Elapse ==
    /\ spc = "idle"
    /\ now + 1 <= MaxTime
    /\ now' = now + 1
    /\ UNCHANGED <<arguments, last_request_times, spc, netloc, attempt, attempts,
                   dispatched, failures, outcome, lastDispatch, sample, fetchVars, toolVars>>

NextSend ==
    \/ \E h \in Hosts : Request(h)
    \/ \E z \in Deviates, jitter \in 0..MaxJitter : Pace(z, jitter)
    \/ \E latency \in 0..MaxLatency, status \in StatusCodes : Respond(latency, status)
    \/ \E latency \in 0..MaxLatency : ConnectionError(latency)
    \/ \E latency \in 0..MaxLatency : OtherError(latency)
    \/ Elapse

(***************************************************************************)
(* session.get seen from a caller: the whole of request() as one step.     *)
(* The server answers `errors` dispatches with a ConnectionError and the   *)
(* next one with a response, or with another exception when fault holds.   *)
(***************************************************************************)
session_get(request_attempts, errors, fault) ==
    LET n     == Max(1, request_attempts)
        tries == n - 1                      \* the length of range(1, n)
    IN  IF errors >= tries
        THEN [raised |-> FALSE, response |-> FALSE, dispatched |-> tries]
        ELSE IF fault
        THEN [raised |-> TRUE, response |-> FALSE, dispatched |-> errors + 1]
        ELSE [raised |-> FALSE, response |-> TRUE, dispatched |-> errors + 1]

(***************************************************************************)
(* scrape_publisher_list, scrape_publisher_series_list: the same loop over *)
(* the pages of a listing.  A site holds a chain of n pages p1 -> .. -> pn *)
(* on one host; when it moved, the start URL is redirected to the new      *)
(* host.  A URL the site does not know gets an error page: no item, no     *)
(* next link.  The link to the next page is a path.                        *)
(***************************************************************************)
MaxPages == 3         \* pages of a listing
MaxItems == 2         \* items of a page
MaxErrors == 2        \* consecutive connection errors the server gives

Paths == <<"p1", "p2", "p3", "p4">>
Url(host, path) == [host |-> host, path |-> path]
PUBLISHER_LIST_URL == Url("www", Paths[1])

Sites == {[n |-> n, moved |-> m, counts |-> c] :
              n \in 1..MaxPages, m \in BOOLEAN, c \in [1..MaxPages -> 0..MaxItems]}

SiteHost(s) == IF s.moved THEN "shop" ELSE "www"
PageItems(i, count) == [k \in 1..count |-> <<Paths[i], k>>]

\* the response of the site to a GET of url: the final URL, the items
\* of the page and the href of its next-page link
original_request(s, url) ==
    LET final == IF s.moved /\ url = PUBLISHER_LIST_URL
                 THEN Url("shop", url.path) ELSE url
        known == {i \in 1..s.n : Paths[i] = final.path}
    IN  IF final.host = SiteHost(s) /\ known # {}
        THEN LET i == CHOOSE j \in known : TRUE
             IN  [url |-> final, items |-> PageItems(i, s.counts[i]),
                  next |-> IF i < s.n THEN Paths[i + 1] ELSE None]
        ELSE [url |-> final, items |-> <<>>, next |-> None]

\* urllib.parse.urljoin(page_url, next_page['href'])
next_page_url_of_request(requested, response) == Url(requested.host, response.next)

\* urllib.parse.urljoin(response.url, next_page['href'])
next_page_url(requested, response) == Url(response.url.host, response.next)

CrawlAtRest ==
    /\ listing_site = [n |-> 1, moved |-> FALSE, counts |-> [i \in 1..MaxPages |-> 0]]
    /\ cpc = "idle"
    /\ page_url = PUBLISHER_LIST_URL
    /\ listings = <<>>
    /\ received = <<>>
    /\ publisher_index = 0

NoRanking == [ranked |-> FALSE]
NoSquare == [made |-> FALSE]
NoStream == [read |-> FALSE]

ToolsAtRest == CrawlAtRest /\ ranking = NoRanking /\ square = NoSquare /\ stream = NoStream

\* one turn of `while True`: a response that is None makes make_soup raise
ScrapeListPage(errors, fault) ==
    /\ cpc = "fetch"
    /\ LET got      == session_get(arguments.request_attempts, errors, fault)
           response == original_request(listing_site, page_url)
       IN  IF ~got.response
           THEN /\ cpc' = "failed"
                /\ UNCHANGED <<page_url, listings, received>>
           ELSE /\ listings' = listings \o response.items
                /\ received' = Append(received, response.url)
                /\ IF response.next = None
                   THEN cpc' = "done" /\ UNCHANGED page_url
                   ELSE cpc' = "fetch" /\ page_url' = next_page_url(page_url, response)
    /\ UNCHANGED <<listing_site, publisher_index, ranking, square, stream>>
    /\ UNCHANGED <<sendVars, sample, fetchVars>>

\* main, lines 282-284: the loop over the publishers starts once
\* scrape_publisher_list has returned its list.  A turn is skipped
\* (--skip-existing-publisher) or fetches the publisher's logo and page; a
\* response that is None ends the run with an exception.
ScrapePublisher(skip, errors, fault) ==
    /\ cpc = "done"
    /\ publisher_index < Len(listings)
    /\ LET got == session_get(arguments.request_attempts, errors, fault)
       IN  IF skip \/ got.response
           THEN publisher_index' = publisher_index + 1 /\ UNCHANGED cpc
           ELSE cpc' = "failed" /\ UNCHANGED publisher_index
    /\ UNCHANGED <<listing_site, page_url, listings, received, ranking, square, stream>>
    /\ UNCHANGED <<sendVars, sample, fetchVars>>

NextCrawl ==
    \/ \E errors \in 0..MaxErrors, fault \in BOOLEAN : ScrapeListPage(errors, fault)
    \/ \E skip \in BOOLEAN, errors \in 0..MaxErrors, fault \in BOOLEAN :
           ScrapePublisher(skip, errors, fault)


(***************************************************************************)
(***************************************************************************)
(* fetch_publisher_images.py                                               *)
(*                                                                         *)
(* Values.  Python's None is the string None where the other values are    *)
(* strings (titles, ids, file names, images) and the empty tuple where     *)
(* they are URLs built by urljoin.  An HTTP exchange is a record whose     *)
(* field err says how requests.get / raise_for_status / resp.json() ended: *)
(* "ok", "conn" (ConnectionError, Timeout), "http" (4xx/5xx) or "json"     *)
(* (a body that does not parse).                                           *)
(***************************************************************************)
(***************************************************************************)
NoUrl == <<>>
Errors == {"conn", "http", "json"}

(***************************************************************************)
(* score_image_candidate.  The lower-cased text url+alt+class+id is kept   *)
(* as the set of the keywords it contains, the URL suffix as ext.          *)
(***************************************************************************)
RasterExts == {"png", "jpg", "jpeg", "webp", "gif"}

score_image_candidate(text, ext) ==
      (IF "logo" \in text THEN 6 ELSE 0)
    + (IF "brand" \in text THEN 3 ELSE 0)
    + (IF "header" \in text \/ "banner" \in text THEN 1 ELSE 0)
    - (IF "sprite" \in text \/ "icon" \in text THEN 2 ELSE 0)
    + (IF ext \in RasterExts THEN 2 ELSE 0)
    - (IF ext = "svg" THEN 2 ELSE 0)

\* urllib.parse.urljoin for a relative reference: the reference resolved
\* against the base it is joined to.
urljoin(base, ref) == <<base, ref>>

IsDataUrl(url) == url = "data:image"

\* SimpleHTMLImageParser._add_candidate on the parser state p
add_candidate(p, url, score, source) ==
    IF url = "" \/ IsDataUrl(url)
    THEN p
    ELSE [p EXCEPT !.candidates =
             Append(@, [url |-> urljoin(p.base_url, url), score |-> score,
                        source |-> source])]

MetaImageProps == {"og:image", "twitter:image", "twitter:image:src"}

\* SimpleHTMLImageParser.handle_starttag.  A tag is a record: tag, key (the
\* property/name of a meta, the rel of a link), url (content, href or src),
\* text and ext as for score_image_candidate.
handle_starttag(p, t) ==
    IF t.tag = "base"
    THEN IF t.url # "" THEN [p EXCEPT !.base_url = t.url] ELSE p
    ELSE IF t.tag = "meta"
    THEN IF t.key \in MetaImageProps /\ t.url # ""
         THEN add_candidate(p, t.url, 8, "meta") ELSE p
    ELSE IF t.tag = "link"
    THEN IF t.url # "" /\ t.key \in {"icon", "apple-touch-icon"}
         THEN add_candidate(p, t.url, 6, "icon") ELSE p
    ELSE IF t.tag = "img"
    THEN IF t.url = "" THEN p
         ELSE add_candidate(p, t.url, score_image_candidate(t.text, t.ext), "img")
    ELSE p

\* HTMLParser.feed: the start tags of the document, in order
RECURSIVE feed(_, _)
feed(p, tags) ==
    IF tags = <<>> THEN p ELSE feed(handle_starttag(p, Head(tags)), Tail(tags))

\* an insertion that puts a candidate before those of its own score
RECURSIVE InsertByScore_before_equal(_, _)
InsertByScore_before_equal(sorted, c) ==
    IF sorted = <<>> THEN <<c>>
    ELSE IF Head(sorted).score > c.score
         THEN <<Head(sorted)>> \o InsertByScore_before_equal(Tail(sorted), c)
         ELSE <<c>> \o sorted

\* sorted(candidates, key=score, reverse=True): descending, and stable
RECURSIVE InsertByScore(_, _)
InsertByScore(sorted, c) ==
    IF sorted = <<>> THEN <<c>>
    ELSE IF Head(sorted).score >= c.score
         THEN <<Head(sorted)>> \o InsertByScore(Tail(sorted), c)
         ELSE <<c>> \o sorted

RECURSIVE SortedByScore(_)
SortedByScore(cs) ==
    IF cs = <<>> THEN <<>>
    ELSE InsertByScore(SortedByScore(SubSeq(cs, 1, Len(cs) - 1)), cs[Len(cs)])

\* the same candidates in document order: the sort left out
fetch_html_candidates_unsorted(resp) ==
    IF resp.err # "ok"
    THEN [raised |-> TRUE, value |-> <<>>]
    ELSE [raised |-> FALSE,
          value |-> feed([base_url |-> resp.url, candidates |-> <<>>],
                         resp.tags).candidates]

\* fetch_html_candidates: resp is what requests.get(url) gave
fetch_html_candidates(resp) ==
    IF resp.err # "ok"
    THEN [raised |-> TRUE, value |-> <<>>]
    ELSE [raised |-> FALSE,
          value |-> SortedByScore(
                        feed([base_url |-> resp.url, candidates |-> <<>>],
                             resp.tags).candidates)]

(***************************************************************************)
(* download_image.  resp carries the content type, the chunks of           *)
(* iter_content (their lengths) and whether the bytes decode.              *)
(***************************************************************************)
max_bytes == 5 * 1024 * 1024

\* a loop that also gives up when the running total reaches the cap
RECURSIVE read_chunks_below_cap(_, _, _)
read_chunks_below_cap(chunks, downloaded, cap) ==
    IF chunks = <<>> \/ Head(chunks) = 0 THEN downloaded
    ELSE IF downloaded + Head(chunks) >= cap THEN 0 - 1
    ELSE read_chunks_below_cap(Tail(chunks), downloaded + Head(chunks), cap)

\* the loop over resp.iter_content: the bytes buffered, or -1 once the
\* running total exceeds the cap
RECURSIVE read_chunks(_, _, _)
read_chunks(chunks, downloaded, cap) ==
    IF chunks = <<>> \/ Head(chunks) = 0 THEN downloaded
    ELSE IF downloaded + Head(chunks) > cap THEN 0 - 1
    ELSE read_chunks(Tail(chunks), downloaded + Head(chunks), cap)

download_image(resp) ==
    IF resp.err # "ok" THEN [raised |-> TRUE, value |-> None]
    ELSE IF resp.content_type = "image/svg+xml" THEN [raised |-> FALSE, value |-> None]
    ELSE IF read_chunks(resp.chunks, 0, max_bytes) < 0 THEN [raised |-> FALSE, value |-> None]
    ELSE IF ~resp.decodable THEN [raised |-> FALSE, value |-> None]
    ELSE [raised |-> FALSE, value |-> "Image"]

\* the bytes data.write has put in the buffer when the loop is left
RECURSIVE buffered_bytes(_, _, _)
buffered_bytes(chunks, written, cap) ==
    IF chunks = <<>> \/ Head(chunks) = 0 THEN written
    ELSE IF written + Head(chunks) > cap THEN written
    ELSE buffered_bytes(Tail(chunks), written + Head(chunks), cap)

\* the download gives an image
Usable(resp) == ~download_image(resp).raised /\ download_image(resp).value # None

(***************************************************************************)
(* wiki_search, wiki_pageprops, wikidata_claims, first_claim_value         *)
(***************************************************************************)
wiki_search(resp) ==
    IF resp.err # "ok" THEN [raised |-> TRUE, value |-> None]
    ELSE IF resp.results = <<>> THEN [raised |-> FALSE, value |-> None]
    ELSE [raised |-> FALSE, value |-> resp.results[1]]

wiki_pageprops(resp) ==
    IF resp.err # "ok" THEN [raised |-> TRUE, value |-> None]
    ELSE IF resp.pages = <<>> THEN [raised |-> FALSE, value |-> None]
    ELSE [raised |-> FALSE, value |-> resp.pages[1]]

wikidata_claims(resp) ==
    IF resp.err # "ok" THEN [raised |-> TRUE, value |-> <<>>]
    ELSE [raised |-> FALSE, value |-> resp.claims]

first_claim_value(claims, prop) ==
    IF claims[prop] = <<>> THEN None ELSE claims[prop][1]

\* a or b of Python, for values that are None or non-empty strings
Or(a, b) == IF a # None THEN a ELSE b

MakeInfo(title, lang, qid, official_url, logo_filename) ==
    [wiki_title |-> title, wiki_lang |-> lang, qid |-> qid,
     official_url |-> official_url, logo_filename |-> logo_filename]

(***************************************************************************)
(* resolve_publisher_info(name, lang="fr").  r holds the answers the four  *)
(* requests would get: search_fr, search_en, pageprops, claims.  The       *)
(* result says whether an exception left the function, the info returned   *)
(* and the requests made, in order.                                        *)
(***************************************************************************)
resolve_publisher_info(r) ==
    LET s1 == wiki_search(r.search_fr)
        s2 == wiki_search(r.search_en)
    IN
    IF s1.raised THEN [raised |-> TRUE, info |-> <<>>, calls |-> <<"search">>]
    ELSE IF s1.value = None /\ s2.raised
    THEN [raised |-> TRUE, info |-> <<>>, calls |-> <<"search", "search">>]
    ELSE
    LET title == Or(s1.value, s2.value)
        lang  == IF s1.value = None /\ s2.value # None THEN "en" ELSE "fr"
        c1    == IF s1.value = None THEN <<"search", "search">> ELSE <<"search">>
        pp    == wiki_pageprops(r.pageprops)
        cl    == wikidata_claims(r.claims)
    IN
    IF title = None
    THEN [raised |-> FALSE, info |-> MakeInfo(None, lang, None, None, None), calls |-> c1]
    ELSE IF pp.raised
    THEN [raised |-> TRUE, info |-> <<>>, calls |-> c1 \o <<"pageprops">>]
    ELSE IF pp.value = None
    THEN [raised |-> FALSE, info |-> MakeInfo(title, lang, None, None, None),
          calls |-> c1 \o <<"pageprops">>]
    ELSE IF cl.raised
    THEN [raised |-> TRUE, info |-> <<>>, calls |-> c1 \o <<"pageprops", "claims">>]
    ELSE [raised |-> FALSE,
          info |-> MakeInfo(title, lang, pp.value,
                            first_claim_value(cl.value, "P856"),
                            Or(first_claim_value(cl.value, "P154"),
                               first_claim_value(cl.value, "P18"))),
          calls |-> c1 \o <<"pageprops", "claims">>]

(***************************************************************************)
(* Names.  normalize_key and slugify_bdbase fold case, diacritics and      *)
(* punctuation: two spellings of one publisher share a key and a slug.     *)
(***************************************************************************)
NumPublishers == 2    \* entries of the source list
AllNames == <<"Acme", "Bravo", "Corto", "Delta">>
Spellings == [acme |-> {"Acme", "ACME"}, bravo |-> {"Bravo", "BRAVO"},
              corto |-> {"Corto", "CORTO"}, delta |-> {"Delta", "DELTA"}]

normalize_key(name) == CHOOSE k \in DOMAIN Spellings : name \in Spellings[k]
slugify_bdbase(name) == CHOOSE k \in DOMAIN Spellings : name \in Spellings[k]

\* fetch_bdbase_map: the listing's (name, image) entries, first key wins
RECURSIVE bdbase_entries(_, _)
bdbase_entries(entries, seen) ==
    IF entries = <<>> THEN seen
    ELSE LET key == normalize_key(Head(entries)[1])
         IN  bdbase_entries(Tail(entries),
                            IF key \in DOMAIN seen THEN seen
                            ELSE seen @@ (key :> Head(entries)[2]))

fetch_bdbase_map(resp) ==
    IF resp.err # "ok" THEN [raised |-> TRUE, value |-> <<>>]
    ELSE [raised |-> FALSE, value |-> bdbase_entries(resp.entries, <<>>)]

\* fetch_bdbase_logo_by_slug: requests.get is not guarded; a status other
\* than 200 and a page without the static image path give None
fetch_bdbase_logo_by_slug(slug, resp) ==
    IF resp.err = "conn" THEN [raised |-> TRUE, value |-> NoUrl]
    ELSE IF resp.err # "ok" THEN [raised |-> FALSE, value |-> NoUrl]
    ELSE IF ~resp.has_logo THEN [raised |-> FALSE, value |-> NoUrl]
    ELSE [raised |-> FALSE, value |-> <<"static.bdbase.fr/images/editeurs", slug>>]

\* fetch_bdbase_details
fetch_bdbase_details(name, resp) ==
    IF resp.err = "conn" THEN [raised |-> TRUE, value |-> <<>>]
    ELSE IF resp.err # "ok" THEN [raised |-> FALSE, value |-> <<>>]
    ELSE [raised |-> FALSE,
          value |-> [bdbase_url |-> <<"www.bdbase.fr/editeurs", slugify_bdbase(name)>>,
                     description |-> resp.description,
                     website |-> resp.website]]

wikimedia_file_url(filename) ==
    <<"commons.wikimedia.org/wiki/Special:FilePath", filename>>

(***************************************************************************)
(* find_image_from_official_site, find_image_from_wikimedia,               *)
(* find_image_from_bdbase.  dl maps a URL to the answer its download       *)
(* would get.  The result: the image (None when there is none), its URL,   *)
(* the requests made, and for the directory site whether an exception      *)
(* left the function.                                                      *)
(***************************************************************************)
RECURSIVE first_usable(_, _, _)
first_usable(candidates, dl, made) ==
    IF candidates = <<>>
    THEN [image |-> None, source_url |-> NoUrl, calls |-> made]
    ELSE LET d == download_image(dl[Head(candidates).url])
         IN  IF ~d.raised /\ d.value # None
             THEN [image |-> d.value, source_url |-> Head(candidates).url,
                   calls |-> Append(made, "official_download")]
             ELSE first_usable(Tail(candidates), dl,
                               Append(made, "official_download"))

find_image_from_official_site(url, resp, dl) ==
    IF url = None
    THEN [image |-> None, source_url |-> NoUrl, calls |-> <<>>]
    ELSE LET c == fetch_html_candidates(resp)
         IN  IF c.raised
             THEN [image |-> None, source_url |-> NoUrl, calls |-> <<"official_page">>]
             ELSE first_usable(c.value, dl, <<"official_page">>)

find_image_from_wikimedia(filename, resp) ==
    IF filename = None
    THEN [image |-> None, source_url |-> NoUrl, calls |-> <<>>]
    ELSE LET d == download_image(resp)
         IN  IF d.raised \/ d.value = None
             THEN [image |-> None, source_url |-> NoUrl,
                   calls |-> <<"wikimedia_download">>]
             ELSE [image |-> d.value, source_url |-> wikimedia_file_url(filename),
                   calls |-> <<"wikimedia_download">>]

find_image_from_bdbase(name, map, slug_resp, resp) ==
    LET key    == normalize_key(name)
        listed == IF map # <<>> /\ key \in DOMAIN map THEN map[key] ELSE NoUrl
        probe  == fetch_bdbase_logo_by_slug(slugify_bdbase(name), slug_resp)
        url    == IF listed # NoUrl THEN listed ELSE probe.value
        c1     == IF listed # NoUrl THEN <<>> ELSE <<"bdbase_slug">>
        d      == download_image(resp)
    IN  IF listed = NoUrl /\ probe.raised
        THEN [raised |-> TRUE, image |-> None, source_url |-> NoUrl, calls |-> c1]
        ELSE IF url = NoUrl
        THEN [raised |-> FALSE, image |-> None, source_url |-> NoUrl, calls |-> c1]
        ELSE IF d.raised \/ d.value = None
        THEN [raised |-> FALSE, image |-> None, source_url |-> NoUrl,
              calls |-> Append(c1, "bdbase_download")]
        ELSE [raised |-> FALSE, image |-> d.value, source_url |-> url,
              calls |-> Append(c1, "bdbase_download")]

(***************************************************************************)
(* load_cache, save_cache.  The cache file is missing, holds a JSON        *)
(* document, or holds bytes json.load rejects.                             *)
(***************************************************************************)
\* a load that starts from an empty dict whatever the file holds
load_cache_forgetful(file) == [raised |-> file.kind = "malformed", value |-> <<>>]

load_cache(file) ==
    IF file.kind = "missing" THEN [raised |-> FALSE, value |-> <<>>]
    ELSE IF file.kind = "malformed" THEN [raised |-> TRUE, value |-> <<>>]
    ELSE [raised |-> FALSE, value |-> file.data]

save_cache(c) == [kind |-> "json", data |-> c]

\* cache.get(name)
cache_get(c, name) == IF name \in DOMAIN c THEN c[name] ELSE <<>>

\* `not info`: None and the empty dict are false
NotInfo_always(i) == TRUE

\* a test that also sends a record without title back to the resolver
NotInfo_untitled(i) == IF i = <<>> THEN TRUE ELSE i.wiki_title = None

NotInfo(i) == i = <<>>

(***************************************************************************)
(* main: the command line                                                  *)
(***************************************************************************)
MakeArgs(prefer, dry_run, report_mode, only_missing, use_bdbase, update_folder_info, start, limit) ==
    [prefer |-> prefer, dry_run |-> dry_run, report_mode |-> report_mode,
     only_missing |-> only_missing, use_bdbase |-> use_bdbase,
     update_folder_info |-> update_folder_info, start |-> start, limit |-> limit]

DefaultArgs == MakeArgs("official", FALSE, "append", FALSE, FALSE, FALSE, 0, 0)

(***************************************************************************)
(* main: the report.  csv.writer writes None as the empty string.  The     *)
(* safe_name and output_path columns are functions of the publisher        *)
(* column and are not kept.                                                *)
(***************************************************************************)
CsvCell(v) == IF v = None THEN "" ELSE v

HeaderRow ==
    [publisher |-> "publisher", wiki_title |-> "wiki_title", wiki_lang |-> "wiki_lang",
     wikidata_id |-> "wikidata_id", official_url |-> "official_url",
     logo_filename |-> "logo_filename", image_source_url |-> <<"image_source_url">>,
     status |-> "status"]

ExistsRow(name) ==
    [publisher |-> name, wiki_title |-> "", wiki_lang |-> "", wikidata_id |-> "",
     official_url |-> "", logo_filename |-> "", image_source_url |-> NoUrl,
     status |-> "exists"]

\* a row whose status column always reads ok
InfoRow_always_ok(name, i, url, status) ==
    [publisher |-> name, wiki_title |-> CsvCell(i.wiki_title),
     wiki_lang |-> CsvCell(i.wiki_lang), wikidata_id |-> CsvCell(i.qid),
     official_url |-> CsvCell(i.official_url),
     logo_filename |-> CsvCell(i.logo_filename), image_source_url |-> url,
     status |-> "ok"]

InfoRow(name, i, url, status) ==
    [publisher |-> name, wiki_title |-> CsvCell(i.wiki_title),
     wiki_lang |-> CsvCell(i.wiki_lang), wikidata_id |-> CsvCell(i.qid),
     official_url |-> CsvCell(i.official_url),
     logo_filename |-> CsvCell(i.logo_filename), image_source_url |-> url,
     status |-> status]

\* info.get(key)
InfoGet(i, key) == IF key \in DOMAIN i THEN i[key] ELSE None

Range(f) == {f[x] : x \in DOMAIN f}

(***************************************************************************)
(* main: the state before any process has run                              *)
(***************************************************************************)
MaxRuns == 2          \* processes started in one behaviour

NoHit == [cached |-> FALSE, info |-> <<>>]
NoScan == [fetched |-> FALSE, resp |-> <<>>, usable |-> {}]
NoRun == [ended |-> "none"]

FetchAtRest ==
    /\ source_md = SubSeq(AllNames, 1, NumPublishers)
    /\ cache_json = [kind |-> "missing", data |-> <<>>]
    /\ report_csv = [exists |-> FALSE, rows |-> <<>>]
    /\ folder_jpg = {}
    /\ folder_info = {}
    /\ mpc = "idle"
    /\ args = DefaultArgs
    /\ cache = <<>>
    /\ publishers = <<>>
    /\ idx = 0
    /\ bdbase_map = <<>>
    /\ image_exists = FALSE
    /\ info = <<>>
    /\ description = None
    /\ website = None
    /\ image = None
    /\ source_url = NoUrl
    /\ src_pos = 0
    /\ crash_site = None
    /\ runs = 0
    /\ calls = <<>>
    /\ run_calls = {}
    /\ run_rows = <<>>
    /\ hit = NoHit
    /\ scan = NoScan
    /\ prev_run = NoRun

(***************************************************************************)
(* main, lines 508-555: load the cache, read and filter the list, fetch    *)
(* the directory index, open the report and write its header.              *)
(***************************************************************************)
Missing(names, present) == SelectSeq(names, LAMBDA n : n \notin present)

Sliced(names, start, limit) ==
    LET from == IF start # 0 THEN SubSeq(names, start + 1, Len(names)) ELSE names
    IN  IF limit # 0 THEN SubSeq(from, 1, Min(limit, Len(from))) ELSE from

\* a run that writes the header whatever the file holds
write_header_always(report_exists, report_mode) == TRUE

\* lines 530-532: the header is written into a new or an overwritten file
write_header(report_exists, report_mode) == ~report_exists \/ report_mode = "overwrite"

StartRun(a, map_resp) ==
    /\ mpc \in {"idle", "done", "crashed"}
    /\ runs < MaxRuns
    /\ runs' = runs + 1
    /\ args' = a
    /\ prev_run' = IF runs = 0 THEN NoRun
                   ELSE [ended |-> mpc, args |-> args, publishers |-> publishers,
                         rows |-> run_rows]
    /\ run_rows' = <<>>
    /\ calls' = <<>>
    /\ hit' = NoHit
    /\ scan' = NoScan
    /\ idx' = 1
    /\ image_exists' = FALSE
    /\ info' = <<>>
    /\ description' = None
    /\ website' = None
    /\ image' = None
    /\ source_url' = NoUrl
    /\ src_pos' = 0
    /\ LET loaded == load_cache(cache_json)
           listed == IF a.only_missing THEN Missing(source_md, folder_jpg)
                     ELSE source_md
           todo   == Sliced(listed, a.start, a.limit)
           header == write_header(report_csv.exists, a.report_mode)
           kept   == IF a.report_mode = "overwrite" THEN <<>> ELSE report_csv.rows
           fetched == fetch_bdbase_map(map_resp)
       IN  IF loaded.raised
           THEN /\ mpc' = "crashed"
                /\ crash_site' = "load_cache"
                /\ cache' = <<>>
                /\ publishers' = <<>>
                /\ bdbase_map' = <<>>
                /\ run_calls' = {}
                /\ UNCHANGED report_csv
           ELSE /\ cache' = loaded.value
                /\ publishers' = todo
                /\ bdbase_map' = IF a.use_bdbase /\ ~fetched.raised
                                 THEN fetched.value ELSE <<>>
                /\ run_calls' = IF a.use_bdbase THEN {"bdbase_map"} ELSE {}
                /\ report_csv' = [exists |-> TRUE,
                                  rows |-> IF header THEN Append(kept, HeaderRow)
                                           ELSE kept]
                /\ mpc' = IF todo = <<>> THEN "done" ELSE "loop"
                /\ crash_site' = None
    /\ UNCHANGED <<source_md, cache_json, folder_jpg, folder_info>>
    /\ UNCHANGED <<sendVars, sample, toolVars>>

\* a writer that puts the row in place of what the file holds
WriteRow_in_place(row) ==
    /\ report_csv' = [report_csv EXCEPT !.rows = <<row>>]
    /\ run_rows' = Append(run_rows, row)

\* write_report_row, and the end of the loop body
WriteRow(row) ==
    /\ report_csv' = [report_csv EXCEPT !.rows = Append(@, row)]
    /\ run_rows' = Append(run_rows, row)

\* a loop that leaves out every second publisher
Advance_by_two ==
    /\ idx' = idx + 2
    /\ mpc' = IF idx + 2 > Len(publishers) THEN "done" ELSE "loop"

Advance ==
    /\ idx' = idx + 1
    /\ mpc' = IF idx + 1 > Len(publishers) THEN "done" ELSE "loop"

Crash(site) ==
    /\ mpc' = "crashed"
    /\ crash_site' = site

(***************************************************************************)
(* main, lines 557-573: the publisher's image is looked up; an existing    *)
(* image ends the iteration unless --update-folder-info asks for more; a   *)
(* publisher the cache does not know is resolved and the cache saved.      *)
(***************************************************************************)
EntityBegin(r) ==
    /\ mpc = "loop"
    /\ LET name   == publishers[idx]
           exists == name \in folder_jpg
           cached == cache_get(cache, name)
           res    == resolve_publisher_info(r)
       IN  /\ image_exists' = exists
           /\ description' = None
           /\ website' = None
           /\ image' = None
           /\ source_url' = NoUrl
           /\ src_pos' = 0
           /\ scan' = NoScan
           /\ IF exists /\ ~args.update_folder_info
              THEN /\ WriteRow(ExistsRow(name))
                   /\ Advance
                   /\ calls' = <<>>
                   /\ hit' = NoHit
                   /\ info' = <<>>
                   /\ UNCHANGED <<cache, cache_json, crash_site, run_calls>>
              ELSE /\ hit' = [cached |-> name \in DOMAIN cache, info |-> cached]
                   /\ UNCHANGED <<report_csv, run_rows, idx>>
                   /\ IF NotInfo(cached)
                      THEN /\ calls' = res.calls
                           /\ run_calls' = run_calls \cup Range(res.calls)
                           /\ IF res.raised
                              THEN /\ Crash("resolve_publisher_info")
                                   /\ info' = <<>>
                                   /\ UNCHANGED <<cache, cache_json>>
                              ELSE /\ info' = res.info
                                   /\ cache' = (name :> res.info) @@ cache
                                   /\ cache_json' = save_cache(cache')
                                   /\ mpc' = "details"
                                   /\ UNCHANGED crash_site
                      ELSE /\ info' = cached
                           /\ calls' = <<>>
                           /\ mpc' = "details"
                           /\ UNCHANGED <<cache, cache_json, crash_site, run_calls>>
    /\ UNCHANGED <<source_md, folder_jpg, folder_info, args, publishers, bdbase_map,
                   runs, prev_run>>
    /\ UNCHANGED <<sendVars, sample, toolVars>>

(***************************************************************************)
(* main, lines 575-595: the directory site's description and website are   *)
(* fetched when asked for and not yet in the record; an existing image     *)
(* ends the iteration here.                                                *)
(***************************************************************************)
\* a record whose official URL is replaced by the directory site's website
info_with_details_as_official(record, details) ==
    [bdbase_description |-> details.description,
     bdbase_website |-> details.website,
     bdbase_url |-> details.bdbase_url,
     official_url |-> details.website] @@ record

\* lines 581-583: the three fields the directory site adds to the record
info_with_details(record, details) ==
    [bdbase_description |-> details.description,
     bdbase_website |-> details.website,
     bdbase_url |-> details.bdbase_url] @@ record

Details(resp) ==
    /\ mpc = "details"
    /\ LET name    == publishers[idx]
           wanted  == args.update_folder_info /\ args.use_bdbase
           needed  == wanted /\ ("bdbase_description" \notin DOMAIN info
                                 \/ "bdbase_website" \notin DOMAIN info)
           d       == fetch_bdbase_details(name, resp)
           found   == needed /\ ~d.raised /\ d.value # <<>>
           info2   == IF found THEN info_with_details(info, d.value) ELSE info
           descr   == IF wanted THEN InfoGet(info2, "bdbase_description") ELSE None
           site    == IF wanted THEN InfoGet(info2, "bdbase_website") ELSE None
           block   == args.update_folder_info /\ (descr # None \/ site # None)
       IN  /\ calls' = IF needed THEN Append(calls, "bdbase_details") ELSE calls
           /\ run_calls' = IF needed THEN run_calls \cup {"bdbase_details"}
                           ELSE run_calls
           /\ IF needed /\ d.raised
              THEN /\ Crash("fetch_bdbase_details")
                   /\ UNCHANGED <<info, cache, cache_json, description, website,
                                  folder_info, report_csv, run_rows, idx, src_pos>>
              ELSE /\ info' = info2
                   /\ cache' = IF found THEN (name :> info2) @@ cache ELSE cache
                   /\ cache_json' = IF found THEN save_cache(cache') ELSE cache_json
                   /\ description' = descr
                   /\ website' = site
                   /\ UNCHANGED crash_site
                   /\ IF image_exists
                      THEN /\ folder_info' = IF block THEN folder_info \cup {name}
                                             ELSE folder_info
                           /\ WriteRow(ExistsRow(name))
                           /\ Advance
                           /\ UNCHANGED src_pos
                      ELSE /\ mpc' = "acquire"
                           /\ src_pos' = 1
                           /\ UNCHANGED <<folder_info, report_csv, run_rows, idx>>
    /\ UNCHANGED <<source_md, folder_jpg, args, publishers, bdbase_map, image_exists,
                   image, source_url, runs, hit, scan, prev_run>>
    /\ UNCHANGED <<sendVars, sample, toolVars>>

(***************************************************************************)
(* main, lines 597-611: the image sources in the order --prefer gives; a   *)
(* source is asked only while no image has been found, the directory site  *)
(* only with --use-bdbase.                                                 *)
(***************************************************************************)
\* an order that starts with the official site whatever --prefer says
SourceOrder_official_first(prefer) == <<"official", "bdbase", "wikimedia">>

SourceOrder(prefer) ==
    IF prefer = "official" THEN <<"official", "bdbase", "wikimedia">>
    ELSE <<"wikimedia", "bdbase", "official">>

\* a chain that stops after its first source
NextPos_first_only(k, img, use_bdbase) == 4

\* the position asked after position k gave img: 4 when none is
\* a walk through the sources that leaves the directory site out
NextPos_without_bdbase(k, img, use_bdbase) ==
    IF img # None THEN 4
    ELSE IF k = 1 THEN 3
    ELSE k + 1

NextPos(k, img, use_bdbase) ==
    IF img # None THEN 4
    ELSE IF k = 1 THEN (IF use_bdbase THEN 2 ELSE 3)
    ELSE k + 1

AfterSource(res) ==
    /\ image' = res.image
    /\ source_url' = res.source_url
    /\ calls' = calls \o res.calls
    /\ run_calls' = run_calls \cup Range(res.calls)
    /\ src_pos' = NextPos(src_pos, res.image, args.use_bdbase)
    /\ mpc' = IF src_pos' > 3 THEN "finish" ELSE "acquire"

TryOfficial(resp, dl) ==
    /\ mpc = "acquire"
    /\ SourceOrder(args.prefer)[src_pos] = "official"
    /\ AfterSource(find_image_from_official_site(info.official_url, resp, dl))
    /\ scan' = IF info.official_url = None THEN NoScan
               ELSE [fetched |-> TRUE, resp |-> resp,
                     usable |-> {u \in DOMAIN dl : Usable(dl[u])}]
    /\ UNCHANGED <<fileVars, args, cache, publishers, idx, bdbase_map, image_exists,
                   info, description, website, crash_site, runs, run_rows, hit,
                   prev_run>>
    /\ UNCHANGED <<sendVars, sample, toolVars>>

TryWikimedia(resp) ==
    /\ mpc = "acquire"
    /\ SourceOrder(args.prefer)[src_pos] = "wikimedia"
    /\ AfterSource(find_image_from_wikimedia(info.logo_filename, resp))
    /\ UNCHANGED <<fileVars, args, cache, publishers, idx, bdbase_map, image_exists,
                   info, description, website, crash_site, runs, run_rows, hit,
                   scan, prev_run>>
    /\ UNCHANGED <<sendVars, sample, toolVars>>

TryBdbase(slug_resp, resp) ==
    /\ mpc = "acquire"
    /\ SourceOrder(args.prefer)[src_pos] = "bdbase"
    /\ LET res == find_image_from_bdbase(publishers[idx], bdbase_map, slug_resp, resp)
       IN  IF res.raised
           THEN /\ Crash("find_image_from_bdbase")
                /\ calls' = calls \o res.calls
                /\ run_calls' = run_calls \cup Range(res.calls)
                /\ UNCHANGED <<image, source_url, src_pos>>
           ELSE /\ AfterSource(res)
                /\ UNCHANGED crash_site
    /\ UNCHANGED <<fileVars, args, cache, publishers, idx, bdbase_map, image_exists,
                   info, description, website, runs, run_rows, hit, scan, prev_run>>
    /\ UNCHANGED <<sendVars, sample, toolVars>>

(***************************************************************************)
(* main, lines 613-654: the report row; the image is saved unless this is  *)
(* a dry run.                                                              *)
(***************************************************************************)
Finish ==
    /\ mpc = "finish"
    /\ LET name  == publishers[idx]
           block == args.update_folder_info /\ (description # None \/ website # None)
       IN  IF image = None
           THEN /\ WriteRow(InfoRow(name, info, NoUrl, "no_image"))
                /\ folder_info' = IF block THEN folder_info \cup {name} ELSE folder_info
                /\ UNCHANGED folder_jpg
           ELSE /\ folder_jpg' = IF args.dry_run THEN folder_jpg
                                 ELSE folder_jpg \cup {name}
                /\ folder_info' = IF ~args.dry_run /\ block
                                  THEN folder_info \cup {name} ELSE folder_info
                /\ WriteRow(InfoRow(name, info, source_url,
                                    IF args.dry_run THEN "dry_run" ELSE "ok"))
    /\ Advance
    /\ scan' = NoScan
    /\ UNCHANGED <<source_md, cache_json, args, cache, publishers, bdbase_map,
                   image_exists, info, description, website, image, source_url,
                   src_pos, crash_site, runs, calls, run_calls, hit, prev_run>>
    /\ UNCHANGED <<sendVars, sample, toolVars>>

(***************************************************************************)
(* The network: the answers a request may get.                             *)
(***************************************************************************)
SearchResp(err, results) == [err |-> err, results |-> results]
PagepropsResp(err, pages) == [err |-> err, pages |-> pages]
ClaimsResp(err, p856, p154, p18) ==
    [err |-> err, claims |-> [P856 |-> p856, P154 |-> p154, P18 |-> p18]]
PageResp(err, url, tags) == [err |-> err, url |-> url, tags |-> tags]
DownloadResp(err, content_type, chunks, decodable) ==
    [err |-> err, content_type |-> content_type, chunks |-> chunks,
     decodable |-> decodable]
SlugResp(err, has_logo) == [err |-> err, has_logo |-> has_logo]
DetailsResp(err, descr, site) == [err |-> err, description |-> descr, website |-> site]
MapResp(err, entries) == [err |-> err, entries |-> entries]

Tag(tag, key, url, text, ext) ==
    [tag |-> tag, key |-> key, url |-> url, text |-> text, ext |-> ext]

OgTag == Tag("meta", "og:image", "share.png", {}, "png")

PngImage == DownloadResp("ok", "image/png", <<8192, 100>>, TRUE)
SvgImage == DownloadResp("ok", "image/svg+xml", <<100>>, TRUE)
NoDownload == DownloadResp("conn", "", <<>>, FALSE)

\* the answers drawn when whole batches are followed
LeanWeb ==
    [search    |-> {SearchResp("conn", <<>>), SearchResp("ok", <<>>),
                    SearchResp("ok", <<"Title">>)},
     pageprops |-> {PagepropsResp("http", <<>>), PagepropsResp("ok", <<"Q1">>)},
     claims    |-> {ClaimsResp("ok", <<"https://official">>, <<"Logo.png">>, <<>>),
                    ClaimsResp("ok", <<>>, <<>>, <<>>)},
     page      |-> {PageResp("conn", "", <<>>),
                    PageResp("ok", "https://official/", <<OgTag>>)},
     download  |-> {PngImage, NoDownload},
     slug      |-> {SlugResp("conn", FALSE), SlugResp("ok", TRUE)},
     details   |-> {DetailsResp("conn", None, None), DetailsResp("http", None, None),
                    DetailsResp("ok", "About", None)},
     map       |-> {MapResp("conn", <<>>),
                    MapResp("ok", << <<"ACME", <<"static.bdbase.fr/images/editeurs",
                                                 "acme.jpg">> >> >>)}]

ArgSetsFetch ==
    {DefaultArgs,
     MakeArgs("wikimedia", TRUE, "overwrite", FALSE, FALSE, FALSE, 0, 0),
     MakeArgs("official", FALSE, "append", TRUE, TRUE, TRUE, 0, 0),
     MakeArgs("wikimedia", FALSE, "overwrite", TRUE, TRUE, FALSE, 0, 1),
     MakeArgs("official", FALSE, "append", FALSE, FALSE, TRUE, 1, 0)}

CandidateUrls(resp) ==
    IF resp.err # "ok" THEN {}
    ELSE {c.url : c \in Range(fetch_html_candidates(resp).value)}

(***************************************************************************)
(* The batch: processes run one after the other over the same files.       *)
(***************************************************************************)
NextMain(web, argsets) ==
    \/ \E a \in argsets, m \in web.map : StartRun(a, m)
    \/ \E r \in [search_fr : web.search, search_en : web.search,
                 pageprops : web.pageprops, claims : web.claims] : EntityBegin(r)
    \/ \E d \in web.details : Details(d)
    \/ \E resp \in web.page : \E dl \in [CandidateUrls(resp) -> web.download] :
           TryOfficial(resp, dl)
    \/ \E sr \in web.slug, d \in web.download : TryBdbase(sr, d)
    \/ \E d \in web.download : TryWikimedia(d)
    \/ Finish

SendAtRest ==
    /\ make_requests_session
    /\ arguments.request_attempts = 0
    /\ arguments.delay_range = <<0, 0>>
    /\ sample = NoSample

InitFetch ==
    /\ SendAtRest
    /\ ToolsAtRest
    /\ source_md = SubSeq(AllNames, 1, NumPublishers)
    /\ cache_json \in {[kind |-> "missing", data |-> <<>>],
                       [kind |-> "malformed", data |-> <<>>]}
    /\ report_csv = [exists |-> FALSE, rows |-> <<>>]
    /\ folder_jpg \in SUBSET {AllNames[1]}
    /\ folder_info = {}
    /\ mpc = "idle"
    /\ args = DefaultArgs
    /\ cache = <<>>
    /\ publishers = <<>>
    /\ idx = 0
    /\ bdbase_map = <<>>
    /\ image_exists = FALSE
    /\ info = <<>>
    /\ description = None
    /\ website = None
    /\ image = None
    /\ source_url = NoUrl
    /\ src_pos = 0
    /\ crash_site = None
    /\ runs = 0
    /\ calls = <<>>
    /\ run_calls = {}
    /\ run_rows = <<>>
    /\ hit = NoHit
    /\ scan = NoScan
    /\ prev_run = NoRun

NextFetch == NextMain(LeanWeb, ArgSetsFetch)

SpecFetch == InitFetch /\ [][NextFetch]_vars

(***************************************************************************)
(* One publisher, one process, and a wider choice of answers: every kind   *)
(* of failure of the wiki requests, and official pages of up to MaxTags    *)
(* start tags.                                                             *)
(***************************************************************************)
MaxTags == 2          \* start tags of an official page

TagKinds ==
    {OgTag,
     Tag("meta", "twitter:image", "card.jpg", {}, "jpg"),
     Tag("meta", "og:image", "data:image", {}, ""),
     Tag("link", "icon", "favicon.ico", {"icon"}, "ico"),
     Tag("img", "", "brand-logo.png", {"logo", "brand"}, "png"),
     Tag("img", "", "banner", {"banner"}, ""),
     Tag("base", "", "https://cdn/", {}, "")}

RECURSIVE SeqsUpTo(_, _)
SeqsUpTo(S, n) ==
    IF n = 0 THEN {<<>>}
    ELSE LET shorter == SeqsUpTo(S, n - 1)
         IN  shorter \cup {Append(q, x) : q \in shorter, x \in S}

FullWeb ==
    [search    |-> {SearchResp(e, <<>>) : e \in Errors}
                   \cup {SearchResp("ok", <<>>), SearchResp("ok", <<"Title">>)},
     pageprops |-> {PagepropsResp(e, <<>>) : e \in Errors}
                   \cup {PagepropsResp("ok", <<>>), PagepropsResp("ok", <<None>>),
                         PagepropsResp("ok", <<"Q1">>)},
     claims    |-> {ClaimsResp(e, <<>>, <<>>, <<>>) : e \in Errors}
                   \cup {ClaimsResp("ok", u, l, i) :
                             u \in {<<>>, <<"https://official">>},
                             l \in {<<>>, <<"Logo.png">>},
                             i \in {<<>>, <<"Photo.jpg">>}},
     page      |-> {PageResp("conn", "", <<>>), PageResp("http", "", <<>>)}
                   \cup {PageResp("ok", "https://official/", tags) :
                             tags \in SeqsUpTo(TagKinds, MaxTags)},
     download  |-> {PngImage, SvgImage, NoDownload},
     slug      |-> {SlugResp("conn", FALSE), SlugResp("http", FALSE),
                    SlugResp("ok", FALSE), SlugResp("ok", TRUE)},
     details   |-> {DetailsResp("conn", None, None), DetailsResp("http", None, None),
                    DetailsResp("ok", "About", None),
                    DetailsResp("ok", None, "https://site")},
     map       |-> {MapResp("conn", <<>>), MapResp("ok", <<>>),
                    MapResp("ok", << <<"ACME", <<"static.bdbase.fr/images/editeurs",
                                                 "acme.jpg">> >> >>)}]

ArgSetsResolve ==
    {MakeArgs(p, p = "wikimedia" /\ b, "append", FALSE, b, u, 0, 0) :
         p \in {"official", "wikimedia"}, b \in BOOLEAN, u \in BOOLEAN}

InitResolve ==
    /\ SendAtRest
    /\ ToolsAtRest
    /\ source_md = <<AllNames[1]>>
    /\ cache_json \in {[kind |-> "missing", data |-> <<>>],
                       save_cache(AllNames[1] :>
                           MakeInfo("Title", "fr", "Q1", "https://official", "Logo.png"))}
    /\ report_csv = [exists |-> FALSE, rows |-> <<>>]
    /\ folder_jpg \in SUBSET {AllNames[1]}
    /\ folder_info = {}
    /\ mpc = "idle"
    /\ args = DefaultArgs
    /\ cache = <<>>
    /\ publishers = <<>>
    /\ idx = 0
    /\ bdbase_map = <<>>
    /\ image_exists = FALSE
    /\ info = <<>>
    /\ description = None
    /\ website = None
    /\ image = None
    /\ source_url = NoUrl
    /\ src_pos = 0
    /\ crash_site = None
    /\ runs = MaxRuns - 1
    /\ calls = <<>>
    /\ run_calls = {}
    /\ run_rows = <<>>
    /\ hit = NoHit
    /\ scan = NoScan
    /\ prev_run = NoRun

NextResolve == NextMain(FullWeb, ArgSetsResolve)

SpecResolve == InitResolve /\ [][NextResolve]_vars

(***************************************************************************)
(* Runs that are interrupted (a signal, a kill, a power cut).  The process *)
(* stops where it is.  save_cache, lines 348-350, opens the cache file     *)
(* with mode "w", which empties it, and json.dump then writes the document *)
(* piece by piece: a process stopped in between leaves a file that is not  *)
(* a JSON document.                                                        *)
(***************************************************************************)
Interrupt(r, in_write) ==
    /\ mpc \in {"loop", "details", "acquire", "finish"}
    /\ IF in_write
       THEN /\ mpc = "loop"
            /\ LET name == publishers[idx]
               IN  /\ ~(name \in folder_jpg /\ ~args.update_folder_info)
                   /\ NotInfo(cache_get(cache, name))
                   /\ ~resolve_publisher_info(r).raised
            /\ cache_json' = [kind |-> "malformed", data |-> <<>>]
       ELSE UNCHANGED cache_json
    /\ Crash("interrupt")
    /\ UNCHANGED <<source_md, report_csv, folder_jpg, folder_info, args, cache,
                   publishers, idx, bdbase_map, image_exists, info, description,
                   website, image, source_url, src_pos, historyVars>>
    /\ UNCHANGED <<sendVars, sample, toolVars>>

ArgSetsInterrupt == {MakeArgs("official", FALSE, "append", FALSE, TRUE, TRUE, 0, 0)}

InitInterrupt ==
    /\ InitFetch
    /\ cache_json.kind = "missing"
    /\ folder_jpg = {}

NextInterrupt ==
    \/ NextMain(LeanWeb, ArgSetsInterrupt)
    \/ \E r \in [search_fr : LeanWeb.search, search_en : LeanWeb.search,
                 pageprops : LeanWeb.pageprops, claims : LeanWeb.claims],
           in_write \in BOOLEAN : Interrupt(r, in_write)

SpecInterrupt == InitInterrupt /\ [][NextInterrupt]_vars

(***************************************************************************)
(* get_random_delay on its own: the bounds and the deviate are drawn, the  *)
(* function is applied and its result kept.                                *)
(***************************************************************************)
MaxRange == 3         \* delay bounds are drawn from 0, 4, .., 4 * MaxRange
DelayGrid == {4 * i : i \in 0..MaxRange}

InitDelay == SendAtRest /\ FetchAtRest /\ ToolsAtRest

SampleDelay(lower, upper, z) ==
    /\ sample' = [lower |-> lower, upper |-> upper, z |-> z,
                  delay |-> get_random_delay(lower, upper, z), drawn |-> TRUE]
    /\ UNCHANGED <<sendVars, fetchVars, toolVars>>

NextDelay == \E lower \in DelayGrid, upper \in DelayGrid, z \in Deviates :
                 SampleDelay(lower, upper, z)

SpecDelay == InitDelay /\ [][NextDelay]_vars

InitSend == make_requests_session /\ sample = NoSample /\ FetchAtRest /\ ToolsAtRest

SpecSend == InitSend /\ [][NextSend]_vars

(***************************************************************************)
(* fetch_html_candidates on its own: the start tags of a page are drawn,   *)
(* the page is ranked, and ranked a second time.                           *)
(***************************************************************************)
MaxRankTags == 3      \* start tags of a ranked page

RankPage(tags) ==
    /\ ~ranking.ranked
    /\ LET resp == PageResp("ok", "https://official/", tags)
       IN  ranking' = [ranked |-> TRUE, again |-> FALSE, tags |-> tags,
                       first |-> fetch_html_candidates(resp).value,
                       second |-> <<>>]
    /\ UNCHANGED <<crawlVars, square, stream>>
    /\ UNCHANGED <<sendVars, sample, fetchVars>>

RankAgain ==
    /\ ranking.ranked
    /\ ~ranking.again
    /\ LET resp == PageResp("ok", "https://official/", ranking.tags)
       IN  ranking' = [ranking EXCEPT !.again = TRUE,
                                      !.second = fetch_html_candidates(resp).value]
    /\ UNCHANGED <<crawlVars, square, stream>>
    /\ UNCHANGED <<sendVars, sample, fetchVars>>

InitRank == SendAtRest /\ FetchAtRest /\ ToolsAtRest

NextRank ==
    \/ \E tags \in SeqsUpTo(TagKinds, MaxRankTags) : RankPage(tags)
    \/ RankAgain

SpecRank == InitRank /\ [][NextRank]_vars

(***************************************************************************)
(* make_square(image, size).  An image is its mode and its size; the       *)
(* result carries the crop box as well.  Pasting on a white background and *)
(* convert("RGB") keep the size; crop gives the size of its box; resize    *)
(* gives the size asked for.                                               *)
(***************************************************************************)
MaxSide == 16         \* widths and heights of the images squared
MaxSize == 3          \* target sizes

Modes == {"RGB", "RGBA", "LA", "P"}

\* a crop that takes the top left corner
make_square_corner(img, size) ==
    LET min_side == Min(img.width, img.height)
    IN  [mode |-> "RGB", width |-> size, height |-> size,
         box  |-> <<0, 0, min_side, min_side>>]

make_square(img, size) ==
    LET width    == img.width
        height   == img.height
        min_side == Min(width, height)
        left     == (width - min_side) \div 2
        top      == (height - min_side) \div 2
        right    == left + min_side
        bottom   == top + min_side
        cropped  == [mode |-> "RGB", width |-> right - left, height |-> bottom - top]
    IN  [mode |-> cropped.mode, width |-> size, height |-> size,
         box  |-> <<left, top, right, bottom>>]

MakeSquare(img, size) ==
    /\ ~square.made
    /\ square' = [made |-> TRUE, image |-> img, size |-> size,
                  result |-> make_square(img, size)]
    /\ UNCHANGED <<crawlVars, ranking, stream>>
    /\ UNCHANGED <<sendVars, sample, fetchVars>>

InitSquare == SendAtRest /\ FetchAtRest /\ ToolsAtRest

NextSquare ==
    \E m \in Modes, w \in 1..MaxSide, h \in 1..MaxSide, size \in 1..MaxSize :
        MakeSquare([mode |-> m, width |-> w, height |-> h], size)

SpecSquare == InitSquare /\ [][NextSquare]_vars

(***************************************************************************)
(* download_image on its own: a response is drawn and streamed.  The body  *)
(* comes as the pieces iter_content yields, kept as their lengths; a piece *)
(* stands for what one or more reads of chunk_size bytes delivered, and    *)
(* the lengths are taken so that bodies end just below, at and just above  *)
(* the cap.  An error status still carries a content type and a body.      *)
(***************************************************************************)
MaxChunks == 3        \* pieces of a streamed body
chunk_size == 8192

Pieces == {1, chunk_size, max_bytes - chunk_size - 1, max_bytes - chunk_size}

Bodies == SeqsUpTo(Pieces, MaxChunks)

RECURSIVE TotalBytes(_)
TotalBytes(chunks) ==
    IF chunks = <<>> THEN 0 ELSE Head(chunks) + TotalBytes(Tail(chunks))

\* only a body of some length can be an image
StreamResponses ==
    {r \in {DownloadResp(e, ct, body, dec) :
                e \in {"ok", "http"}, ct \in {"image/png", "image/svg+xml", ""},
                body \in Bodies, dec \in BOOLEAN} :
         r.decodable => TotalBytes(r.chunks) >= chunk_size}
    \cup {NoDownload}

DownloadImage(resp) ==
    /\ ~stream.read
    /\ stream' = [read |-> TRUE, resp |-> resp, result |-> download_image(resp),
                  buffered |-> IF resp.err = "ok" /\ resp.content_type # "image/svg+xml"
                               THEN buffered_bytes(resp.chunks, 0, max_bytes) ELSE 0]
    /\ UNCHANGED <<crawlVars, ranking, square>>
    /\ UNCHANGED <<sendVars, sample, fetchVars>>

InitStream == SendAtRest /\ FetchAtRest /\ ToolsAtRest

NextStream == \E resp \in StreamResponses : DownloadImage(resp)

SpecStream == InitStream /\ [][NextStream]_vars

(***************************************************************************)
(* A crawl of one listing.  The loop has no other process to wait for, so  *)
(* a turn that can be taken is taken.                                      *)
(***************************************************************************)
InitCrawl ==
    /\ make_requests_session
    /\ arguments.delay_range = <<0, 0>>
    /\ sample = NoSample
    /\ FetchAtRest
    /\ ranking = NoRanking
    /\ square = NoSquare
    /\ stream = NoStream
    /\ listing_site \in Sites
    /\ cpc = "fetch"
    /\ page_url = PUBLISHER_LIST_URL
    /\ listings = <<>>
    /\ received = <<>>
    /\ publisher_index = 0

SpecCrawl == InitCrawl /\ [][NextCrawl]_vars /\ WF_vars(NextCrawl)

(***************************************************************************)
(* Claims about the transport.                                             *)
(***************************************************************************)
SendEnded == spc = "idle" /\ outcome # None

\* C3: when every attempt of a send fails with a connection-level failure, the
\* transport has dispatched exactly `attempts` network calls before giving up.
C3_DispatchesAttemptsCalls ==
    (SendEnded /\ outcome \in {"returned_none", "raised_ConnectionError"}
               /\ failures = dispatched)
        => dispatched = attempts

\* C4: a send either returns a response or fails with the network error; it
\* never completes normally without a response.
C4_ResponseOrFailure ==
    SendEnded => outcome \in {"response", "raised_ConnectionError", "raised_other"}

\* C5: the gap between two consecutive dispatch timestamps to the same host is
\* never less than the delay sampled for the later dispatch.
C5_MinimumSpacing ==
    (lastDispatch.host # None /\ lastDispatch.previous # 0)
        => lastDispatch.time - lastDispatch.previous >= lastDispatch.raw

\* C5 witness: a second dispatch to a host for which the transport slept only
\* the part of the sampled delay that had not yet elapsed.
C5_Witness ==
    /\ lastDispatch.host # None
    /\ lastDispatch.previous # 0
    /\ lastDispatch.slept > 0
    /\ lastDispatch.slept < lastDispatch.raw

\* C6: for every range lo <= hi and every raw sample, the delay returned by
\* the sampler lies within [lo, hi].
C6_DelayWithinRange ==
    (sample.drawn /\ sample.lower <= sample.upper)
        => (sample.lower <= sample.delay /\ sample.delay <= sample.upper)

\* C6 witness: a raw sample beyond the upper bound was clamped back to it.
C6_Witness ==
    /\ sample.drawn
    /\ sample.lower < sample.upper
    /\ get_random_delay_unclamped(sample.lower, sample.upper, sample.z) > sample.upper
    /\ sample.delay = sample.upper

(***************************************************************************)
(* Claims about the batch.                                                 *)
(***************************************************************************)
ApiCalls == {"search", "pageprops", "claims"}
ResolvedKeys == {"wiki_title", "wiki_lang", "qid", "official_url", "logo_filename"}
ResolvedFields(i) == [k \in ResolvedKeys |-> i[k]]
RowFields(row) == <<row.wiki_title, row.wiki_lang, row.wikidata_id,
                    row.official_url, row.logo_filename>>

\* C1 as stated: processing a publisher whose record is in the cache makes no
\* network call at all and leaves the record as it was.
C1_CachedEntityNoNetwork ==
    (hit.cached /\ mpc = "finish") => (calls = <<>> /\ info = hit.info)

\* C1 as amended: processing a publisher whose record is in the cache makes
\* no search, page-properties or linked-data request, and the resolved fields
\* of the record stay as cached; image sources may still be asked.
C1_CachedEntityNoResolution ==
    hit.cached =>
        /\ \A i \in DOMAIN calls : calls[i] \notin ApiCalls
        /\ ResolvedFields(info) = ResolvedFields(hit.info)

\* C1 witness: a cached publisher went through the image sources and one of
\* them gave an image.
C1_Witness ==
    /\ hit.cached
    /\ mpc = "finish"
    /\ calls # <<>>
    /\ image # None

\* two processes with the same options ran to the end over the same list
TwoRuns ==
    /\ runs >= 2
    /\ mpc = "done"
    /\ prev_run.ended = "done"
    /\ prev_run.args = args
    /\ prev_run.publishers = publishers

\* C2 as stated: the second of two runs over the same list writes the same
\* report rows as the first and makes no network call.
C2_IdenticalSecondRun ==
    TwoRuns => (run_rows = prev_run.rows /\ run_calls = {})

\* C2 as amended: the second of two runs with the same options over the same
\* list makes no search or linked-data request, and each of its rows is an
\* `exists` row or carries the resolved fields of the first run's row for
\* that publisher.
C2_SecondRunNoResolution ==
    TwoRuns =>
        /\ run_calls \cap ApiCalls = {}
        /\ \A i \in DOMAIN run_rows :
               \/ run_rows[i].status = "exists"
               \/ \E j \in DOMAIN prev_run.rows :
                      /\ prev_run.rows[j].publisher = run_rows[i].publisher
                      /\ RowFields(prev_run.rows[j]) = RowFields(run_rows[i])

\* C2 witness: a second run over a cached list that asked the image sources
\* again and wrote a row other than `exists`.
C2_Witness ==
    /\ TwoRuns
    /\ run_calls # {}
    /\ \E i \in DOMAIN run_rows : run_rows[i].status # "exists"
    /\ run_rows # prev_run.rows

\* C7: no failure while processing one publisher aborts the batch: a process
\* that entered the loop ends with a report row for every listed publisher.
C7_FailureNeverAbortsBatch ==
    (mpc \in {"done", "crashed"} /\ crash_site # "load_cache" /\ runs >= 1)
        => Len(run_rows) = Len(publishers)

\* C8: when the resolution of a publisher fails, the outcome is stored in the
\* cache under the publisher's name.
C8_FailedResolutionCached ==
    crash_site = "resolve_publisher_info"
        => (cache_json.kind = "json" /\ publishers[idx] \in DOMAIN cache_json.data)

\* C9: loading the cache never fails; a missing or malformed file gives an
\* empty cache and the run proceeds.
C9_LoadCacheNeverFails ==
    crash_site # "load_cache"

(***************************************************************************)
(* Claims about the choice of the image.                                   *)
(***************************************************************************)
\* the candidates of the scanned page, in document order
ScanCandidates == Range(fetch_html_candidates_unsorted(scan.resp).value)
MetaUrls == {c.url : c \in {d \in ScanCandidates : d.source = "meta"}}

\* prefer=official, a search hit, a logo file, and a reachable official page
\* with an og:image tag whose image downloads
OfficialScenario ==
    /\ mpc = "finish"
    /\ args.prefer = "official"
    /\ info.wiki_title # None
    /\ info.logo_filename # None
    /\ scan.fetched
    /\ scan.resp.err = "ok"
    /\ \E i \in DOMAIN scan.resp.tags :
           /\ scan.resp.tags[i].tag = "meta"
           /\ scan.resp.tags[i].key = "og:image"
           /\ scan.resp.tags[i].url \notin {"", "data:image"}
    /\ MetaUrls \subseteq scan.usable

\* C10 as stated: whatever other image tags the page holds, the chosen image
\* URL is the official page's meta-image URL.
C10_MetaImageChosen ==
    OfficialScenario => source_url \in MetaUrls

\* C10 as amended: the chosen image URL is the usable candidate of the official
\* page with the highest score (the meta image unless a usable img tag
\* outranks it), and it is never the structured-data file URL.
C10_BestUsableCandidateChosen ==
    OfficialScenario =>
        /\ image # None
        /\ source_url # wikimedia_file_url(info.logo_filename)
        /\ \E c \in ScanCandidates :
               /\ c.url = source_url
               /\ c.url \in scan.usable
               /\ \A d \in ScanCandidates : d.url \in scan.usable => d.score <= c.score

\* C10 witness: the meta image was chosen on a page that also held another
\* usable candidate.
C10_Witness ==
    /\ OfficialScenario
    /\ source_url \in MetaUrls
    /\ \E d \in ScanCandidates : d.source # "meta" /\ d.url \in scan.usable

(***************************************************************************)
(* Claims about the chain of image sources.                                *)
(***************************************************************************)
\* the official site was asked and the connection failed, and the directory
\* site is disabled
OfficialUnreachable ==
    /\ mpc = "finish"
    /\ ~args.use_bdbase
    /\ scan.fetched
    /\ scan.resp.err = "conn"

\* C11: when the official site is unreachable and the directory site is
\* disabled, the structured-data file is downloaded if the publisher has one
\* and is then the only possible image; a publisher without one gets no image
\* and the row no_image is written to the report.
C11_FallbackToFile ==
    [][OfficialUnreachable =>
          /\ ("wikimedia_download" \in Range(calls)) <=> (info.logo_filename # None)
          /\ "bdbase_slug" \notin Range(calls) /\ "bdbase_download" \notin Range(calls)
          /\ image # None => source_url = wikimedia_file_url(info.logo_filename)
          /\ info.logo_filename = None =>
                 /\ image = None
                 /\ report_csv'.rows =
                        Append(report_csv.rows,
                               InfoRow(publishers[idx], info, NoUrl, "no_image"))]_vars

\* C11 witness: the official site was unreachable and the image came from the
\* structured-data file.
C11_Witness ==
    /\ OfficialUnreachable
    /\ args.prefer = "official"
    /\ image # None
    /\ source_url = wikimedia_file_url(info.logo_filename)

(***************************************************************************)
(* Claims about the crawl of a listing.                                    *)
(***************************************************************************)
\* the URLs of the first k pages of the chain, and their items in page order
ChainUrls(k) == [i \in 1..k |-> Url(SiteHost(listing_site), Paths[i])]

RECURSIVE ChainItems(_)
ChainItems(k) ==
    IF k = 0 THEN <<>>
    ELSE ChainItems(k - 1) \o PageItems(k, listing_site.counts[k])

\* C12: for a chain of n pages the crawl receives each page once, in
\* chain order, returns the items of all pages concatenated in page order
\* (what it holds on the way is what the pages received so far gave), and
\* ends: with the whole list, or at a page the session returned no response
\* for.
C12_CrawlDeliversChain ==
    /\ [](/\ Len(received) <= listing_site.n
          /\ received = ChainUrls(Len(received))
          /\ listings = ChainItems(Len(received))
          /\ cpc = "done" => Len(received) = listing_site.n)
    /\ <>(cpc \in {"done", "failed"})

\* C12 witness: a chain of three pages on a moved site, each with items, was
\* crawled to its end.
C12_Witness ==
    /\ cpc = "done"
    /\ listing_site.n = MaxPages
    /\ listing_site.moved
    /\ \A i \in 1..MaxPages : listing_site.counts[i] > 0
    /\ Len(listings) > MaxPages

(***************************************************************************)
(* Claims about the ranking of candidates.                                 *)
(***************************************************************************)
\* the candidates of the ranked page in document order
FirstSeen ==
    feed([base_url |-> "https://official/", candidates |-> <<>>],
         ranking.tags).candidates

WithScore(cs, v) == SelectSeq(cs, LAMBDA c : c.score = v)

\* C13: ranking the same tags twice gives the same candidates with the same
\* scores in the same order; the order is by descending score, and the
\* candidates of one score are in the order the document has them.
C13_RankingStable ==
    ranking.ranked =>
        /\ ranking.again => ranking.second = ranking.first
        /\ Len(ranking.first) = Len(FirstSeen)
        /\ \A i, j \in DOMAIN ranking.first :
               i < j => ranking.first[i].score >= ranking.first[j].score
        /\ \A c \in Range(FirstSeen) :
               WithScore(ranking.first, c.score) = WithScore(FirstSeen, c.score)

\* C13 witness: a page ranked twice whose best candidate comes last in the
\* document, after two different candidates of one score.
C13_Witness ==
    /\ ranking.ranked
    /\ ranking.again
    /\ Len(FirstSeen) = MaxRankTags
    /\ FirstSeen[1].score = FirstSeen[2].score
    /\ FirstSeen[1] # FirstSeen[2]
    /\ FirstSeen[3].score > FirstSeen[1].score
    /\ ranking.first = <<FirstSeen[3], FirstSeen[1], FirstSeen[2]>>

(***************************************************************************)
(* Claims about make_square.                                               *)
(***************************************************************************)
Abs(x) == IF x >= 0 THEN x ELSE 0 - x

\* C14: for every image of width and height at least 1 and every size at
\* least 1 the result is size x size, and the crop box is a square of side
\* min(width, height) inside the image whose left and right margins, and top
\* and bottom margins, differ by at most one pixel.
C14_SquareOfRequestedSize ==
    square.made =>
        LET w      == square.image.width
            h      == square.image.height
            left   == square.result.box[1]
            top    == square.result.box[2]
            right  == square.result.box[3]
            bottom == square.result.box[4]
        IN  /\ square.result.width = square.size
            /\ square.result.height = square.size
            /\ right - left = Min(w, h)
            /\ bottom - top = Min(w, h)
            /\ 0 <= left /\ right <= w
            /\ 0 <= top /\ bottom <= h
            /\ Abs(left - (w - right)) <= 1
            /\ Abs(top - (h - bottom)) <= 1

\* C14 witness: a 16:9 image with transparency was cropped with an odd
\* margin and resized.
C14_Witness ==
    /\ square.made
    /\ square.image = [mode |-> "RGBA", width |-> 16, height |-> 9]
    /\ square.result.box = <<3, 0, 12, 9>>
    /\ square.result.width = MaxSize

(***************************************************************************)
(* Claims about the configuration of the transport.                        *)
(***************************************************************************)
\* C15: with a delay range whose minimum is greater than its maximum no
\* request is ever dispatched (the run ends with a configuration error
\* before).
C15_InvalidRangeNeverDispatches ==
    arguments.delay_range[1] > arguments.delay_range[2] =>
        /\ dispatched = 0
        /\ lastDispatch = NoDispatch

(***************************************************************************)
(* Claims about the report.                                                *)
(***************************************************************************)
Statuses == {"exists", "ok", "dry_run", "no_image"}

\* the status the claim gives the publisher being processed
StatusDue ==
    IF publishers[idx] \in folder_jpg THEN "exists"
    ELSE IF image = None THEN "no_image"
    ELSE IF args.dry_run THEN "dry_run"
    ELSE "ok"

\* C16: every data row written carries one status of exists, ok, dry_run,
\* no_image: exists iff the publisher's folder.jpg existed when it was
\* processed, otherwise no_image iff no source gave an image, otherwise
\* dry_run iff the run is a dry run, otherwise ok.
C16_StatusDetermined ==
    [][(mpc \in {"loop", "details", "finish"} /\ report_csv'.rows # report_csv.rows) =>
          LET row == report_csv'.rows[Len(report_csv'.rows)]
          IN  /\ report_csv'.rows = Append(report_csv.rows, row)
              /\ row.publisher = publishers[idx]
              /\ row.status \in Statuses
              /\ row.status = StatusDue]_vars

\* C16 witness: a dry run found an image for a publisher without folder.jpg
\* and wrote its row.
C16_Witness ==
    /\ mpc = "done"
    /\ args.dry_run
    /\ Len(run_rows) = 1
    /\ run_rows[1].status = "dry_run"
    /\ image # None

IsPrefix(p, q) == Len(p) <= Len(q) /\ p = SubSeq(q, 1, Len(p))

\* C17 as stated: across any sequence of runs the rows the report holds stay,
\* unaltered, and rows are only added after them.
C17_ReportOnlyGrows ==
    [][IsPrefix(report_csv.rows, report_csv'.rows)]_vars

\* C17 as amended: the rows the report holds stay and rows are only added
\* after them, in every step but the start of a run with --report-mode
\* overwrite.
C17_ReportGrowsUnlessOverwritten ==
    [][(runs' = runs \/ args'.report_mode = "append") =>
          IsPrefix(report_csv.rows, report_csv'.rows)]_vars

\* C17 witness: a second run in append mode added its rows after those of
\* the first.
C17_Witness ==
    /\ runs = 2
    /\ args.report_mode = "append"
    /\ prev_run.ended = "done"
    /\ Len(prev_run.rows) > 0
    /\ Len(run_rows) > 0
    /\ report_csv.rows = <<HeaderRow>> \o prev_run.rows \o run_rows

(***************************************************************************)
(* Claims about the order of the image sources.                            *)
(***************************************************************************)
\* the source a request of the image acquisition goes to
SourceOf(call) ==
    IF call \in {"official_page", "official_download"} THEN "official"
    ELSE IF call \in {"bdbase_slug", "bdbase_download"} THEN "bdbase"
    ELSE "wikimedia"

BdbaseCalls == {"bdbase_map", "bdbase_details", "bdbase_slug", "bdbase_download"}

\* the requests of the image acquisition made for the current publisher
AcquisitionCalls ==
    SelectSeq(calls, LAMBDA c : c \notin ApiCalls \cup {"bdbase_details"})

\* the place of a source in the order the claim gives for --prefer
PlaceOf(source, prefer) ==
    IF source = "bdbase" THEN 2
    ELSE IF (source = "official") = (prefer = "official") THEN 1
    ELSE 3

\* the source an image URL belongs to
SourceOfUrl(url) ==
    IF url[1] = "commons.wikimedia.org/wiki/Special:FilePath" THEN "wikimedia"
    ELSE IF url[1] = "static.bdbase.fr/images/editeurs" THEN "bdbase"
    ELSE "official"

\* C18: the sources are contacted in the order official, directory site,
\* structured-data file with --prefer official and structured-data file,
\* directory site, official otherwise; no source is contacted once an image
\* is found, so the image comes from the last source contacted; and the
\* directory site is never contacted without --use-bdbase.
C18_SourcesInOrder ==
    /\ mpc = "acquire" => image = None
    /\ mpc \in {"acquire", "finish", "crashed"} =>
           LET made == AcquisitionCalls
           IN  /\ \A i, j \in DOMAIN made :
                      i < j => PlaceOf(SourceOf(made[i]), args.prefer)
                                   <= PlaceOf(SourceOf(made[j]), args.prefer)
               /\ (mpc = "finish" /\ image # None) =>
                      /\ made # <<>>
                      /\ SourceOf(made[Len(made)]) = SourceOfUrl(source_url)
    /\ ~args.use_bdbase => run_calls \cap BdbaseCalls = {}

\* C18 witness: with --prefer wikimedia and --use-bdbase the file and the
\* directory site gave nothing and the image came from the official site.
C18_Witness ==
    /\ mpc = "finish"
    /\ args.prefer = "wikimedia"
    /\ args.use_bdbase
    /\ image # None
    /\ SourceOfUrl(source_url) = "official"
    /\ {"wikimedia_download", "bdbase_slug", "official_page"} \subseteq Range(calls)

\* C19: no failure of an image source or of the download of a candidate
\* leaves the image acquisition: the acquisition of a publisher always ends
\* with the next source asked or with the report row, never with the
\* process ended by an exception of find_image_from_official_site,
\* find_image_from_bdbase or find_image_from_wikimedia.
C19_AcquisitionFailuresContained ==
    crash_site \notin {"find_image_from_official_site", "find_image_from_bdbase",
                       "find_image_from_wikimedia"}

(***************************************************************************)
(* Claims about download_image.                                            *)
(***************************************************************************)
\* the three conditions the claim names
Acceptable(resp) ==
    /\ resp.content_type # "image/svg+xml"
    /\ TotalBytes(resp.chunks) <= max_bytes
    /\ resp.decodable

GaveImage == ~stream.result.raised /\ stream.result.value # None

\* C20 as stated: a download gives an image if and only if the content type
\* is not SVG, the streamed bytes do not exceed the cap and they decode; the
\* buffer never holds more than the cap.
C20_UsableIffAcceptable ==
    stream.read =>
        /\ GaveImage <=> Acceptable(stream.resp)
        /\ stream.buffered <= max_bytes

\* C20 as amended: a download gives an image if and only if the request
\* succeeds with a status that raise_for_status accepts, the content type is
\* not SVG, the streamed bytes do not exceed the cap and they decode; the
\* buffer never holds more than the cap.
C20_UsableIffOkAndAcceptable ==
    stream.read =>
        /\ GaveImage <=> (stream.resp.err = "ok" /\ Acceptable(stream.resp))
        /\ stream.buffered <= max_bytes

\* C20 witness: a body of exactly the cap was accepted.
C20_Witness ==
    /\ stream.read
    /\ TotalBytes(stream.resp.chunks) = max_bytes
    /\ stream.buffered = max_bytes
    /\ GaveImage

(***************************************************************************)
(* Claims about the delivery of the crawled items.                         *)
(***************************************************************************)
\* C21: the crawl is lazy: when the page after page k is fetched, the
\* consumer has been handed the items of the pages up to k (and so a
\* consumer that stops there causes no further fetch).
C21_ItemsDeliveredBeforeNextFetch ==
    [][Len(received') = Len(received) + 1 =>
          publisher_index = Len(ChainItems(Len(received)))]_vars

(***************************************************************************)
(* Claims about the pacing state of the transport.                         *)
(***************************************************************************)
\* C22: the host's last-dispatch timestamp is written at every network
\* attempt (first attempt or retry) with the time of that dispatch, and no
\* other step (a response or a failure arriving, the caller working) changes
\* it, so the wait before the next attempt to the host is measured from the
\* previous dispatch to it.
C22_StampedAtDispatchOnly ==
    [][/\ dispatched' = dispatched + 1 =>
             /\ last_request_times' = [last_request_times EXCEPT ![netloc] = now']
             /\ lastDispatch'.previous = last_request_times[netloc]
             /\ lastDispatch.host = netloc => lastDispatch'.previous = lastDispatch.time
       /\ dispatched' # dispatched + 1 => last_request_times' = last_request_times]_vars

\* C22 witness: a retry to a host was answered some time after its dispatch,
\* and the host's timestamp is still the time of the dispatch.
C22_Witness ==
    /\ outcome = "response"
    /\ spc = "idle"
    /\ attempt > 1
    /\ lastDispatch.host = netloc
    /\ now > lastDispatch.time
    /\ last_request_times[netloc] = lastDispatch.time

\* C23: a send whose first attempt receives a response, an error status
\* included, has made exactly one network dispatch when it ends.
C23_ResponseNeverRetried ==
    (SendEnded /\ outcome = "response" /\ failures = 0) => dispatched = 1

\* C23 witness: a send ended with a 4xx or 5xx response to its first attempt.
C23_Witness ==
    /\ SendEnded
    /\ outcome = "response"
    /\ failures = 0
    /\ lastDispatch.status >= 400
    /\ dispatched = 1

(***************************************************************************)
(* Claims about the supplemental fields and the cache.                     *)
(***************************************************************************)
\* C24: for a publisher whose folder.jpg exists, a run with
\* --update-folder-info asks no image source (no official-site scan, no
\* directory-site image lookup, no file download), leaves the image as it
\* is, ends the publisher's turn, keeps the resolved fields of its cache
\* record, and the description and website it obtained from the directory
\* site (--use-bdbase) are those of the cache record, in memory and in the
\* cache file.
C24_SupplementOnly ==
    [][(mpc = "details" /\ image_exists /\ args.update_folder_info /\ mpc' # "crashed") =>
          LET name == publishers[idx]
          IN  /\ AcquisitionCalls' = <<>>
              /\ folder_jpg' = folder_jpg
              /\ mpc' \in {"loop", "done"}
              /\ name \in DOMAIN cache'
              /\ hit.cached => ResolvedFields(cache'[name]) = ResolvedFields(hit.info)
              /\ ResolvedFields(cache'[name]) = ResolvedFields(info)
              /\ args.use_bdbase =>
                     /\ description' = InfoGet(cache'[name], "bdbase_description")
                     /\ website' = InfoGet(cache'[name], "bdbase_website")
              /\ cache_json'.kind = "json"
              /\ cache_json'.data[name] = cache'[name]]_vars

\* C24 witness: a cached publisher whose image exists got its website from
\* the directory site; the turn ended with the folder-info block written.
C24_Witness ==
    /\ mpc = "done"
    /\ image_exists
    /\ args.update_folder_info
    /\ args.use_bdbase
    /\ hit.cached
    /\ calls = <<"bdbase_details">>
    /\ website # None
    /\ cache[publishers[1]].bdbase_website = website
    /\ publishers[1] \in folder_info

\* C25: whenever a run stops, the cache file can be loaded and holds the
\* record of every publisher whose turn ended with a report row carrying
\* resolved fields.
C25_CacheSurvivesInterruption ==
    LET loaded == load_cache(cache_json)
    IN  /\ ~loaded.raised
        /\ \A i \in 1..Len(report_csv.rows) :
               report_csv.rows[i].status \in {"ok", "no_image", "dry_run"} =>
                   report_csv.rows[i].publisher \in DOMAIN loaded.value

(***************************************************************************)
(* Claims about a publisher the searches do not know.                      *)
(***************************************************************************)
Unmatched == info # <<>> /\ ~hit.cached /\ info.wiki_title = None

\* C26: when neither the French nor the English search returns a title,
\* the two searches are the only linked-data requests, the resolution with
\* no title, no id, no official URL and no logo file is recorded and saved
\* in the cache, and for a publisher without image the directory site has
\* been asked for one (with --use-bdbase) by the time the row of the
\* publisher is written; without it the row says no_image.
C26_NoMatchStillTriesFallbacks ==
    Unmatched =>
        LET name == publishers[1]
            none == MakeInfo(None, "fr", None, None, None)
        IN  /\ SubSeq(calls, 1, 2) = <<"search", "search">>
            /\ Range(calls) \cap {"pageprops", "claims"} = {}
            /\ ResolvedFields(info) = none
            /\ ResolvedFields(cache[name]) = none
            /\ cache_json.kind = "json"
            /\ ResolvedFields(cache_json.data[name]) = none
            /\ Range(calls) \cap {"official_page", "official_download",
                                  "wikimedia_download"} = {}
            /\ (mpc \in {"finish", "done"} /\ ~image_exists /\ args.use_bdbase) =>
                   Range(calls) \cap {"bdbase_slug", "bdbase_download"} # {}
            /\ (mpc = "done" /\ ~image_exists /\ ~args.use_bdbase) =>
                   run_rows[1].status = "no_image"

\* C26 witness: an unmatched publisher ended with a no_image row after the
\* directory site was asked and had no page for it.
C26_Witness ==
    /\ Unmatched
    /\ mpc = "done"
    /\ args.use_bdbase
    /\ ~image_exists
    /\ run_rows[1].status = "no_image"
    /\ "bdbase_slug" \in Range(calls)
    /\ cache[publishers[1]].wiki_title = None

(***************************************************************************)
(* Claims about the report and the cache over whole runs.                  *)
(***************************************************************************)
InTurn == mpc \in {"loop", "details", "acquire", "finish"}

\* C27: while publisher idx is in turn, the run has written exactly the rows
\* of the publishers before it; a run that ends normally has written one
\* row per publisher of its list, in list order, each with one of the four
\* statuses, and these rows are the end of the report file.
C27_OneRowPerEntityInOrder ==
    /\ InTurn => Len(run_rows) = idx - 1
    /\ mpc \in {"loop", "details", "acquire", "finish", "done"} =>
           /\ Len(run_rows) <= Len(publishers)
           /\ \A i \in 1..Len(run_rows) :
                  /\ run_rows[i].publisher = publishers[i]
                  /\ run_rows[i].status \in {"exists", "no_image", "ok", "dry_run"}
           /\ Len(report_csv.rows) >= Len(run_rows)
           /\ SubSeq(report_csv.rows, Len(report_csv.rows) - Len(run_rows) + 1,
                     Len(report_csv.rows)) = run_rows
    /\ mpc = "done" => Len(run_rows) = Len(publishers)

\* C27 witness: a run over two publishers ended with an exists row followed
\* by the row of a publisher that went through the image sources.
C27_Witness ==
    /\ mpc = "done"
    /\ Len(publishers) = 2
    /\ Len(run_rows) = 2
    /\ run_rows[1].status = "exists"
    /\ run_rows[2].status \in {"ok", "no_image"}

Keeps(old, new) ==
    /\ DOMAIN old \subseteq DOMAIN new
    /\ \A n \in DOMAIN old : ResolvedFields(new[n]) = ResolvedFields(old[n])

\* C28: no step of any run removes a key from the cache file or changes the
\* title, language, id, official URL or logo file of a record the file
\* holds, and the cache in memory keeps all of them during a run's loop.
C28_CacheOnlyGrows ==
    [][/\ cache_json.kind = "json" =>
             /\ cache_json'.kind = "json"
             /\ Keeps(cache_json.data, cache_json'.data)
       /\ (InTurn /\ mpc' # "crashed") =>
             /\ Keeps(cache, cache')
             /\ cache_json'.kind = "json" => Keeps(cache_json'.data, cache')
       /\ (cache_json.kind = "json" /\ runs' = runs + 1) =>
             Keeps(cache_json.data, cache')]_vars

\* C28 witness: in a second run a record written by the first run got its
\* description from the directory site, beside a second record.
C28_Witness ==
    /\ runs = 2
    /\ hit.cached
    /\ calls = <<"bdbase_details">>
    /\ cache_json.kind = "json"
    /\ Cardinality(DOMAIN cache_json.data) = 2
    /\ \E n \in DOMAIN cache_json.data :
           /\ "bdbase_description" \in DOMAIN cache_json.data[n]
           /\ ResolvedFields(cache_json.data[n]) = ResolvedFields(hit.info)

\* C29: a step changes the last-dispatch timestamp of no host but the one
\* the send goes to, and the time slept before a dispatch to a host is the
\* sampled delay less the time elapsed since the last dispatch to that same
\* host, whatever was sent to the other hosts.
C29_PacingPerHost ==
    [][/\ \A h \in Hosts :
             h # netloc' => last_request_times'[h] = last_request_times[h]
       /\ dispatched' = dispatched + 1 =>
             /\ lastDispatch'.host = netloc
             /\ lastDispatch'.slept =
                    Max(0, lastDispatch'.raw - (now - last_request_times[netloc]))]_vars

\* C29 witness: a dispatch to a host that had been used before, made sooner
\* after a dispatch to the other host than the sampled delay.
C29_Witness ==
    /\ spc = "inflight"
    /\ lastDispatch.previous # 0
    /\ \E g \in Hosts \ {lastDispatch.host} :
           /\ last_request_times[g] > lastDispatch.previous
           /\ lastDispatch.time - last_request_times[g] < lastDispatch.raw

\* C30: whatever runs were made, in append or in overwrite mode, a report
\* file that exists holds the header row exactly once, as its first row.
C30_OneHeaderFirst ==
    report_csv.exists =>
        /\ Len(report_csv.rows) >= 1
        /\ report_csv.rows[1] = HeaderRow
        /\ \A i \in 2..Len(report_csv.rows) : report_csv.rows[i] # HeaderRow

\* C30 witness: a second run in append mode ended after adding its rows to
\* the rows and the header of the first run.
C30_Witness ==
    /\ runs = 2
    /\ mpc = "done"
    /\ args.report_mode = "append"
    /\ prev_run.ended = "done"
    /\ prev_run.rows # <<>>
    /\ run_rows # <<>>
    /\ report_csv.rows = <<HeaderRow>> \o prev_run.rows \o run_rows

====
